---- MODULE Spec2Model ----
(***************************************************************************)
(* productivity_tracker.py: a Flask application with one view function,    *)
(* home(), registered on the two URL rules "/" and "/home", and a launch   *)
(* guard that runs the development server with debug=True when the module  *)
(* is the process entry point.                                             *)
(*                                                                         *)
(* The model follows the module's top-level statements (lines 1-13) with a *)
(* program counter, and the life of a request through the application the  *)
(* module builds: URL matching against the rules the decorators register,  *)
(* then the call of the view function.  A request is a (method, path)      *)
(* pair; the path is the path the rules are matched against.               *)
(***************************************************************************)
EXTENDS Naturals, Sequences, FiniteSets

VARIABLES
    name,            \* the module's __name__
    pc,              \* position in the module's top-level code
    url_map,         \* app.url_map: the sequence of registered rules
    view_functions,  \* app.view_functions: endpoint -> function
    debug,           \* app.debug
    listener,        \* the development server's socket: "none", "bound", "error"
    worker,          \* per worker: the request in flight and how far it got
    log              \* history: the (request, response) pairs sent, in order

vars == <<name, pc, url_map, view_functions, debug, listener, worker, log>>

(* ------------------------------- bounds -------------------------------- *)

\* Number of workers that may process requests at the same time.
NumWorkers == 2

\* Number of requests accepted in one run.
MaxServed == 3

Workers == 1..NumWorkers

Methods == {"GET", "HEAD", "OPTIONS", "POST", "DELETE"}

Paths == {"/", "/home", "/home/", "/Home", "/home/x", "/missing"}

\* The requests served: every method on the two registered paths, and GET
\* on every path.
Requests ==
    [method : Methods, path : {"/", "/home"}] \cup [method : {"GET"}, path : Paths]

ModuleNames == {"__main__", "productivity_tracker"}

(* --------------------------- the program text -------------------------- *)

\* home() with a stray trailing newline in its literal.
home_newline == "<p>Lebron James!</p>\n"

\* home() as a page with a hit counter: the body depends on what was served.
home_counter == IF log = <<>> THEN "<p>Lebron James!</p>" ELSE "<p>Lebron James! again</p>"

\* home() reading a buffer shared with the other workers.
home_shared ==
    IF Cardinality({w \in Workers : worker[w].phase # "idle"}) > 1
    THEN "" ELSE "<p>Lebron James!</p>"

\* def home(): return "<p>Lebron James!</p>"
home == "<p>Lebron James!</p>"

\* Calling a view function.
Call(f) == IF f = "home" THEN home ELSE ""

\* route() given methods=["GET", "POST"].
DefaultMethods_post == {"GET", "HEAD", "OPTIONS", "POST"}

\* @app.route(rule) without a methods argument: GET, and HEAD and OPTIONS
\* added automatically.
DefaultMethods == {"GET", "HEAD", "OPTIONS"}

\* Only the "/" decorator present.
Routes_root_only ==
    << [rule |-> "/", endpoint |-> "home", methods |-> DefaultMethods] >>

\* The rules in the order the decorators add them: decorators apply bottom
\* up, so "/home" (line 6) is added before "/" (line 5).
Routes ==
    << [rule |-> "/home", endpoint |-> "home", methods |-> DefaultMethods],
       [rule |-> "/",     endpoint |-> "home", methods |-> DefaultMethods] >>

\* The guard with its test dropped: app.run at module level.
IsMain_always == TRUE

\* if __name__ == '__main__':
IsMain == name = "__main__"

(* ---------------------------- URL dispatch ----------------------------- *)

\* A rule that also answers its path with a trailing slash.
MatchRule_lax(r, path) == r.rule = path \/ (r.rule = "/home" /\ path = "/home/")

\* A rule without converters matches the path equal to it; neither rule ends
\* in a slash, so no trailing-slash redirect applies.
MatchRule(r, path) == r.rule = path

Idle == [phase |-> "idle"]

Min(S) == CHOOSE i \in S : \A j \in S : i <= j

\* Matching a request against the map: the first rule that matches path and
\* method; a path some rule matches under other methods only is
\* MethodNotAllowed; a path no rule matches is NotFound.
url_match(req) ==
    LET matching == {i \in DOMAIN url_map : MatchRule(url_map[i], req.path)}
        allowed  == {i \in matching : req.method \in url_map[i].methods}
    IN  IF matching = {} THEN [kind |-> "NotFound", endpoint |-> "none"]
        ELSE IF allowed = {} THEN [kind |-> "MethodNotAllowed", endpoint |-> "none"]
        ELSE [kind |-> "rule", endpoint |-> url_map[Min(allowed)].endpoint]

NotFoundPage == "404 Not Found"

MethodNotAllowedPage == "405 Method Not Allowed"

\* The response to a routed request: the framework's error page for a
\* routing exception, the automatic OPTIONS response, or the view function's
\* return value with status 200 (without the body for HEAD).  "called" is
\* the view function that ran, "none" when none did.
make_response(req, routed) ==
    IF routed.kind = "NotFound"
    THEN [status |-> 404, body |-> NotFoundPage, called |-> "none"]
    ELSE IF routed.kind = "MethodNotAllowed"
    THEN [status |-> 405, body |-> MethodNotAllowedPage, called |-> "none"]
    ELSE IF req.method = "OPTIONS"
    THEN [status |-> 200, body |-> "", called |-> "none"]
    ELSE LET f == view_functions[routed.endpoint]
             rv == Call(f)
         IN  [status |-> 200,
              body |-> IF req.method = "HEAD" THEN "" ELSE rv,
              called |-> f]

\* The response a request gets when it is the only one served.
ServedAlone(req) == make_response(req, url_match(req))

(* ------------------------------- Init ---------------------------------- *)

Init ==
    /\ name \in ModuleNames
    /\ pc = "start"
    /\ url_map = <<>>
    /\ view_functions = <<>>
    /\ debug = FALSE
    /\ listener = "none"
    /\ worker = [w \in Workers |-> Idle]
    /\ log = <<>>

(* ------------------------ module-level statements ---------------------- *)

\* app = Flask(__name__)
CreateApp ==
    /\ pc = "start"
    /\ pc' = "decorate"
    /\ url_map' = <<>>
    /\ view_functions' = <<>>
    /\ debug' = FALSE
    /\ UNCHANGED <<name, listener, worker, log>>

\* @app.route("/") @app.route("/home") def home(): ...
RegisterHome ==
    /\ pc = "decorate"
    /\ pc' = "guard"
    /\ url_map' = url_map \o Routes
    /\ view_functions' = [e \in {"home"} |-> "home"]
    /\ UNCHANGED <<name, debug, listener, worker, log>>

\* if __name__ == '__main__': ... ; otherwise the module's code ends and the
\* importer holds the application.
LaunchGuard ==
    /\ pc = "guard"
    /\ pc' = IF IsMain THEN "run" ELSE "imported"
    /\ UNCHANGED <<name, url_map, view_functions, debug, listener, worker, log>>

\* Where the process goes when the listener cannot be started: a retry.
OnBindError_retry == "serving"

\* Where the process goes when the listener cannot be started: the error is
\* not caught, the process ends in failure.
OnBindError == "failed"

\* app.run(debug=True), the listener starts.
AppRunOk ==
    /\ pc = "run"
    /\ debug' = TRUE
    /\ listener' = "bound"
    /\ pc' = "serving"
    /\ UNCHANGED <<name, url_map, view_functions, worker, log>>

\* app.run(debug=True), the listener cannot be started (port in use).
AppRunFails ==
    /\ pc = "run"
    /\ debug' = TRUE
    /\ listener' = "error"
    /\ pc' = OnBindError
    /\ UNCHANGED <<name, url_map, view_functions, worker, log>>

(* ------------------------------ requests ------------------------------- *)

\* Requests reach the application through its own listener, or through the
\* importer (a WSGI server, a test client) once the module is loaded.
Accepting == pc \in {"serving", "imported"}

InFlight == {w \in Workers : worker[w].phase # "idle"}

\* A view function that registers a rule on its first call.
HandlerEffect_registers ==
    /\ url_map' = url_map \o << [rule |-> "/missing", endpoint |-> "home",
                                 methods |-> DefaultMethods] >>
    /\ UNCHANGED <<view_functions, debug>>

\* What serving a request does to the application: home() only returns.
HandlerEffect == UNCHANGED <<url_map, view_functions, debug>>

\* A worker takes a request and matches it against the URL map, as the
\* application does when it sets up the request, before any view runs.
Receive(w, req) ==
    /\ Accepting
    /\ worker[w].phase = "idle"
    /\ Len(log) + Cardinality(InFlight) < MaxServed
    /\ worker' = [worker EXCEPT ![w] =
           [phase |-> "routed", req |-> req, routed |-> url_match(req)]]
    /\ UNCHANGED <<name, pc, url_map, view_functions, debug, listener, log>>

\* The view function (or the error handler) runs and the response is sent.
Handle(w) ==
    /\ Accepting
    /\ worker[w].phase = "routed"
    /\ log' = Append(log, [req |-> worker[w].req,
                           resp |-> make_response(worker[w].req, worker[w].routed)])
    /\ worker' = [worker EXCEPT ![w] = Idle]
    /\ HandlerEffect
    /\ UNCHANGED <<name, pc, listener>>

Next ==
    \/ CreateApp
    \/ RegisterHome
    \/ LaunchGuard
    \/ AppRunOk
    \/ AppRunFails
    \/ \E w \in Workers, req \in Requests : Receive(w, req)
    \/ \E w \in Workers : Handle(w)

Spec == Init /\ [][Next]_vars

(* ------------------------------ properties ----------------------------- *)

Get(path) == [method |-> "GET", path |-> path]

Sent == DOMAIN log

\* C1: every GET request for "/" is answered with status 200 and the body
\* "<p>Lebron James!</p>", nothing before or after it, whatever was served
\* before.
C1_RootReturnsGreeting ==
    \A i \in Sent :
        log[i].req = Get("/") =>
            /\ log[i].resp.status = 200
            /\ log[i].resp.body = "<p>Lebron James!</p>"

\* A GET for "/" answered after a different request was answered.
C1_Witness ==
    \E i \in Sent :
        /\ i > 1
        /\ log[i].req = Get("/")
        /\ log[1].req # Get("/")
        /\ log[i].resp.status = 200

\* C2: every GET request for "/home" gets the status and body of a GET
\* request for "/", from the same view function.
C2_HomeSameAsRoot ==
    /\ \A i \in Sent :
           log[i].req = Get("/home") =>
               /\ log[i].resp.status = ServedAlone(Get("/")).status
               /\ log[i].resp.body = ServedAlone(Get("/")).body
               /\ log[i].resp.called = ServedAlone(Get("/")).called
    /\ \A i, j \in Sent :
           (log[i].req = Get("/home") /\ log[j].req = Get("/")) =>
               log[i].resp = log[j].resp

\* Both a GET for "/home" and a GET for "/" were answered.
C2_Witness ==
    \E i, j \in Sent : log[i].req = Get("/home") /\ log[j].req = Get("/")

\* C3: a GET request for a path other than "/" and "/home" is answered with
\* status 404, home() is not called and its body is not returned.
C3_OtherPathsNotFound ==
    \A i \in Sent :
        (log[i].req.method = "GET" /\ log[i].req.path \notin {"/", "/home"}) =>
            /\ log[i].resp.status = 404
            /\ log[i].resp.called = "none"
            /\ log[i].resp.body # "<p>Lebron James!</p>"

\* The near misses "/home/" and "/Home" and the path "/missing" were answered.
C3_Witness ==
    /\ \E i \in Sent : log[i].req = Get("/home/") /\ log[i].resp.status = 404
    /\ \E i \in Sent : log[i].req = Get("/Home")
    /\ \E i \in Sent : log[i].req = Get("/missing")

\* C4: two identical requests get the identical response, whatever was
\* served in between.
C4_Idempotent ==
    \A i, j \in Sent : log[i].req = log[j].req => log[i].resp = log[j].resp

\* The same request answered twice with a different request answered in
\* between.
C4_Witness ==
    \E i, k, j \in Sent :
        /\ i < k /\ k < j
        /\ log[i].req = log[j].req
        /\ log[k].req # log[i].req
        /\ log[i].resp.called = "home"

\* The application's state: what a request could write to.
app_state == <<name, pc, url_map, view_functions, debug, listener>>

C6_InterleavingIndependent ==
    /\ \A i \in Sent : log[i].resp = ServedAlone(log[i].req)
    /\ \A w \in Workers :
           worker[w].phase = "routed" => worker[w].routed = url_match(worker[w].req)

\* Two workers hold different routed requests at once, one matched and one
\* not, after a response to a matched request was sent.
C6_Witness ==
    /\ \E v, w \in Workers :
           /\ v # w
           /\ worker[v].phase = "routed" /\ worker[w].phase = "routed"
           /\ worker[v].routed.kind = "rule"
           /\ worker[w].routed.kind = "NotFound"
    /\ \E i \in Sent : log[i].resp.called = "home"

\* C7: run as the entry point, the module starts the listener with debug
\* mode on; when the listener cannot be started the process has failed, has
\* served and serves no request, and holds no listener.
C7_StartFailureIsFatal ==
    /\ pc \in {"serving", "failed"} => debug
    /\ listener = "bound" => (debug /\ name = "__main__")
    /\ listener = "error" =>
           /\ pc = "failed"
           /\ ~Accepting
           /\ log = <<>>
           /\ InFlight = {}

\* The listener could not be started.
C7_Witness == listener = "error" /\ pc = "failed" /\ debug

\* C8: the routes are registered whenever the module has been loaded, and
\* app.run is reached if and only if the module is __main__: an imported
\* module has no listener and debug mode off.
C8_RunOnlyUnderGuard ==
    /\ pc \in {"guard", "run", "serving", "failed", "imported"} =>
           /\ \E i \in DOMAIN url_map : url_map[i].rule = "/"
           /\ \E i \in DOMAIN url_map : url_map[i].rule = "/home"
    /\ pc \in {"run", "serving", "failed", "imported"} =>
           (pc \in {"run", "serving", "failed"} <=> name = "__main__")
    /\ name # "__main__" => (listener = "none" /\ ~debug)

\* An imported module answered a request for "/" with no listener started.
C8_Witness ==
    /\ name = "productivity_tracker"
    /\ pc = "imported"
    /\ listener = "none"
    /\ \E i \in Sent : log[i].req = Get("/") /\ log[i].resp.status = 200

\* C9: both rules accept GET, HEAD and OPTIONS only; a request for "/" or
\* "/home" with another method is answered with status 405, not 404, and
\* home() is not called.
C9_OtherMethodsNotAllowed ==
    /\ \A i \in DOMAIN url_map : url_map[i].methods = {"GET", "HEAD", "OPTIONS"}
    /\ \A i \in Sent :
           (/\ log[i].req.path \in {"/", "/home"}
            /\ log[i].req.method \notin {"GET", "HEAD", "OPTIONS"}) =>
               /\ log[i].resp.status = 405
               /\ log[i].resp.called = "none"
               /\ log[i].resp.body # "<p>Lebron James!</p>"

\* A POST for "/" and a DELETE for "/home" were answered.
C9_Witness ==
    /\ \E i \in Sent : log[i].req = [method |-> "POST", path |-> "/"]
    /\ \E i \in Sent : log[i].req = [method |-> "DELETE", path |-> "/home"]

====
